---- MODULE Spec2Model ----
(***************************************************************************)
(* A model of cfor: the orchestrator loop of rootCmd.Run (cmd.go), the     *)
(* completion client (openai.go, openai_cost.go), the cost ledger          *)
(* (UpdateCost, cmd.go), the command selector (ui.go) and the terminal     *)
(* injector injectToPrompt (cmd.go).                                       *)
(*                                                                         *)
(* Strings are sequences of Unicode code points.  Money is counted in      *)
(* units of 1e-9 dollar, in which every per-token rate of the cost table   *)
(* is an integer.                                                          *)
(***************************************************************************)
EXTENDS Integers, Sequences, FiniteSets, TLC

VARIABLES
  env,          \* process environment: GOOS and the three environment variables
  pc,           \* position of rootCmd.Run
  exitCode,     \* process exit status, -1 while running
  printed,      \* the messages rootCmd.Run has printed, in order
  genCalls,     \* number of GenerateCmds calls
  genArgs,      \* each GenerateCmds call: its question, the requests it sent, their key,
                \* and the response of the backend where it is logged
  netCalls,     \* number of requests sent to the completion backend
  genErr,       \* error returned by the last GenerateCmds call
  result,       \* ChatResult returned by the last GenerateCmds call
  today,        \* calendar day time.Now() falls in
  costFile,     \* the cost ledger file
  costLog,      \* the ledger file at the start, the number of entries another process
                \* deleted, and every UpdateCost call: the file before it, its argument,
                \* its day, its outcome and whether GenerateCmds had returned an error
  upd,          \* locals of the running UpdateCost call: the day, the map read from the
                \* file, the file as it was read, and how the file system answers
  sel,          \* the CmdSelector and the state of its UI program
  selOutcome,   \* what the last SelectCmd call returned and what rootCmd.Run did with it
  rerunCount,   \* number of SelectCmd calls that returned RerunError
  tty,          \* settings of the controlling terminal
  ttyQueue,     \* bytes in the terminal's input queue
  inj,          \* locals of the running injectToPrompt call
  injLog        \* every injectToPrompt call: argument, terminal operations, result

vars == <<env, pc, exitCode, printed, genCalls, genArgs, netCalls, genErr, result,
          today, costFile, costLog, upd, sel, selOutcome, rerunCount, tty, ttyQueue,
          inj, injLog>>

\* ------------------------------------------------------------------ bounds

\* Longest command set a backend response carries.
MaxCmds == 2
\* Most Rerun outcomes of one run.
MaxReruns == 1
\* Most messages delivered to one selector whose messages are logged.
MaxKeys == 3
\* Most rows deleted from the table of `cfor cost` while a run goes on.
MaxDeletes == 1

\* ----------------------------------------------------------------- strings

EmptyStr == <<>>

RECURSIVE Repeat(_, _)
\* strings.Repeat for a one-character string
Repeat(c, n) == IF n <= 0 THEN <<>> ELSE <<c>> \o Repeat(c, n - 1)

\* Bytes of the UTF-8 encoding of one code point.
RuneLen(r) == IF r < 128 THEN 1 ELSE IF r < 2048 THEN 2 ELSE IF r < 65536 THEN 3 ELSE 4

RECURSIVE ByteLen(_)
\* Go's len(s) of a string: its length in bytes.
ByteLen(s) == IF s = <<>> THEN 0 ELSE RuneLen(Head(s)) + ByteLen(Tail(s))

\* The i-th suggested command the backend may return: "ls" # "m", "p" (no
\* comment), then one-letter commands with a comment.
CmdEntry(i) ==
  IF i = 1 THEN [Cmd |-> <<108, 115>>, Comment |-> <<109>>]
  ELSE IF i = 2 THEN [Cmd |-> <<112>>, Comment |-> EmptyStr]
  ELSE [Cmd |-> <<96 + i>>, Comment |-> <<99>>]

\* A suggestion whose command holds a character of three bytes: U+20AC, then "a".
WideEntry == [Cmd |-> <<8364, 97>>, Comment |-> <<109>>]

CmdSets == { [i \in 1..n |-> CmdEntry(i)] : n \in 0..MaxCmds } \cup {<<WideEntry>>}

\* ------------------------------------------------------------ errors.go

\* An error value: its dynamic type, whether it is a pointer to the struct or
\* the struct itself, and the Model field of an UnsupportedModelError.
Err(type, ptr, model) == [type |-> type, ptr |-> ptr, model |-> model]

NoError == Err("nil", FALSE, "")

\* The struct types without fields.  Every pointer to a heap-allocated
\* zero-size value is the same address; pointers to two allocations of a
\* struct with fields differ.
ZeroSize(type) ==
  type \in {"APIKeyMissingError", "CostFileNotFoundError", "QuitError", "RerunError"}

\* Go's == on two error interface values.
GoEqual(a, b) ==
  /\ a.type = b.type
  /\ a.ptr = b.ptr
  /\ IF a.ptr THEN ZeroSize(a.type) ELSE a.model = b.model

\* func (e UnsupportedModelError) Is(target error) bool { return target == e }
UnsupportedModelErrorIs(e, target) == GoEqual(target, Err(e.type, FALSE, e.model))

\* errors.Is: none of the error types of errors.go has an Unwrap method, and
\* only UnsupportedModelError has an Is method.
ErrorsIs(err, target) ==
  /\ err # NoError
  /\ \/ GoEqual(err, target)
     \/ err.type = "UnsupportedModelError" /\ UnsupportedModelErrorIs(err, target)

\* ------------------------------------------- float64 (type Cost float64)

\* Cost is a float64, and so are the amounts of the ledger.  A float64 has a
\* significand of Mantissa bits.  An amount is held as the exact number of
\* units of 2^-((Limbs - 1) * LimbBits + NanoBits) dollar it is, written
\* with Limbs digits of base 2^LimbBits, the least significant first; zero
\* and every float64 from 2^-24 up to 2^11 is such a number, which covers
\* the rates, the estimates and the sums of the model.
Mantissa == 53
LimbBits == 20
Limbs == 5
Base == 2^LimbBits
NanoBits == 9
NanoOdd == 5^NanoBits
HalfBase == 2^(LimbBits \div 2)

\* 2^k units.
RECURSIVE Pow2From(_, _)
Pow2From(k, i) ==
  IF i > Limbs THEN <<>>
  ELSE <<IF i = k \div LimbBits + 1 THEN 2^(k % LimbBits) ELSE 0>> \o Pow2From(k, i + 1)

Pow2(k) == Pow2From(k, 1)

RECURSIVE Zeros(_)
Zeros(n) == IF n = 0 THEN <<>> ELSE <<0>> \o Zeros(n - 1)

FZero == Zeros(Limbs)

\* x * n + y, exactly, n being a counter below HalfBase.
RECURSIVE MulAddFrom(_, _, _, _, _)
MulAddFrom(x, n, y, i, carry) ==
  IF i > Limbs THEN <<>>
  ELSE LET s == x[i] * n + y[i] + carry
       IN  <<s % Base>> \o MulAddFrom(x, n, y, i + 1, s \div Base)

MulAdd(x, n, y) == MulAddFrom(x, n, y, 1, 0)

\* The number of bits of x.
RECURSIVE Len2(_)
Len2(n) == IF n = 0 THEN 0 ELSE 1 + Len2(n \div 2)

RECURSIVE BitLenFrom(_, _)
BitLenFrom(x, i) ==
  IF i = 0 THEN 0
  ELSE IF x[i] # 0 THEN (i - 1) * LimbBits + Len2(x[i])
  ELSE BitLenFrom(x, i - 1)

BitLen(x) == BitLenFrom(x, Limbs)

\* Bit k of x, and whether every bit below bit k is zero.
Bit(x, k) == (x[k \div LimbBits + 1] \div 2^(k % LimbBits)) % 2

LowZero(x, k) ==
  \A i \in 1..Limbs :
    /\ i < k \div LimbBits + 1 => x[i] = 0
    /\ i = k \div LimbBits + 1 => x[i] % 2^(k % LimbBits) = 0

\* x with the bits below bit k cleared.
RECURSIVE ClearFrom(_, _, _)
ClearFrom(x, k, i) ==
  IF i > Limbs THEN <<>>
  ELSE <<IF i < k \div LimbBits + 1 THEN 0
         ELSE IF i = k \div LimbBits + 1 THEN x[i] - (x[i] % 2^(k % LimbBits))
         ELSE x[i]>> \o ClearFrom(x, k, i + 1)

\* The float64 nearest to x, or to a little more than x when inexact: the
\* Mantissa leading bits are kept and a tie goes to the even significand.
Round(x, inexact) ==
  LET k == BitLen(x) - Mantissa
  IN  IF k <= 0 THEN x
      ELSE LET down == ClearFrom(x, k, 1)
               half == Bit(x, k - 1) = 1
               more == inexact \/ ~LowZero(x, k - 1)
               odd == Bit(x, k) = 1
           IN  IF half /\ (more \/ odd) THEN MulAdd(down, 1, Pow2(k)) ELSE down

\* The float64 of the decimal constant n * 1e-9, as the Go compiler converts
\* a constant expression and as the JSON decoder reads a number: the float64
\* nearest to the exact value.  n * 1e-9 is n / 5^9 units of 2^-9, whose
\* digits are computed by long division, half a digit at a time.
RECURSIVE Digits(_, _)
Digits(r, j) ==
  IF j = Limbs THEN <<>>
  ELSE LET high == (r * HalfBase) \div NanoOdd
           rest == (r * HalfBase) % NanoOdd
           low == (rest * HalfBase) \div NanoOdd
       IN  Digits((rest * HalfBase) % NanoOdd, j + 1) \o <<high * HalfBase + low>>

RECURSIVE Remainder(_, _)
Remainder(r, j) ==
  IF j = Limbs THEN r
  ELSE Remainder((((r * HalfBase) % NanoOdd) * HalfBase) % NanoOdd, j + 1)

Float64(n) ==
  Round(Digits(n % NanoOdd, 1) \o <<n \div NanoOdd>>, Remainder(n % NanoOdd, 1) # 0)

\* The float64 product x * float64(n), the float64 sum x + y, and the fused
\* x * float64(n) + y, which is rounded once.
FMul(x, n) == Round(MulAdd(x, n, FZero), FALSE)
FAdd(x, y) == Round(MulAdd(x, 1, y), FALSE)
FMA(x, n, y) == Round(MulAdd(x, n, y), FALSE)

\* Go lets a build fuse x*y + z into one operation that rounds once (the
\* compiler does so on arm64 and other targets, not on amd64 by default).
\* In a*b + c*d + e*f the first addition can take either product and the
\* second one the last product.
Fusion(inner, outer) == [inner |-> inner, outer |-> outer]

NoFusion == Fusion("none", FALSE)

Fusions == {Fusion(i, o) : i \in {"none", "first", "second"}, o \in BOOLEAN}

\* ------------------------------------------------------- openai_cost.go

OpenAIModelGPT4oMini == "gpt-4o-mini"
OpenAIModelGPT4o == "gpt-4o"

OpenAISupportedModels == <<OpenAIModelGPT4oMini, OpenAIModelGPT4o>>

IsSupportedModel(model) ==
  \E i \in DOMAIN OpenAISupportedModels : OpenAISupportedModels[i] = model

\* Per-token rates as the constant expressions give them, in units of 1e-9
\* dollar (2.50 * 1e-6 dollar = 2500).
OpenAIModelGPT4oMiniInputCostPerToken == 2500
OpenAIModelGPT4oMiniCachedInputCostPerToken == 1250
OpenAIModelGPT4oMiniOutputCostPerToken == 10000
OpenAIModelGPT4oInputCostPerToken == 150
OpenAIModelGPT4oCachedInputCostPerToken == 75
OpenAIModelGPT4oOutputCostPerToken == 670

\* The rows of the table: the constants as values of type Cost.
CostPerToken(input, cached, output) ==
  [Input |-> Float64(input), CachedInput |-> Float64(cached), Output |-> Float64(output)]

GPT4oMiniCostPerToken ==
  CostPerToken(OpenAIModelGPT4oMiniInputCostPerToken,
               OpenAIModelGPT4oMiniCachedInputCostPerToken,
               OpenAIModelGPT4oMiniOutputCostPerToken)

GPT4oCostPerToken ==
  CostPerToken(OpenAIModelGPT4oInputCostPerToken,
               OpenAIModelGPT4oCachedInputCostPerToken,
               OpenAIModelGPT4oOutputCostPerToken)

\* A model that is no key of the map reads as the zero CostPerToken.
OpenAIModelCosts(model) ==
  IF model = OpenAIModelGPT4oMini THEN GPT4oMiniCostPerToken
  ELSE IF model = OpenAIModelGPT4o THEN GPT4oCostPerToken
  ELSE [Input |-> FZero, CachedInput |-> FZero, Output |-> FZero]

\* Lines 56-62: three float64 products added from left to right, in a build
\* with the given fusion.
EstimateCost(model, usage, fusion) ==
  LET cost == OpenAIModelCosts(model)
      inner == IF fusion.inner = "first"
               THEN FMA(cost.Input, usage.PromptTokens,
                        FMul(cost.CachedInput, usage.CachedTokens))
               ELSE IF fusion.inner = "second"
               THEN FMA(cost.CachedInput, usage.CachedTokens,
                        FMul(cost.Input, usage.PromptTokens))
               ELSE FAdd(FMul(cost.Input, usage.PromptTokens),
                         FMul(cost.CachedInput, usage.CachedTokens))
  IN  IF fusion.outer
      THEN FMA(cost.Output, usage.CompletionTokens, inner)
      ELSE FAdd(inner, FMul(cost.Output, usage.CompletionTokens))

\* ------------------------------------------------------------- openai.go

\* A JSON value: its kind ("string", "number", "null", "object", "array"),
\* the text of a string, the members of an object as a function of their
\* names, the items of an array.  "absent" is what an object has for a name
\* it has no member of; "invalid" is a text that is not JSON.
JValue(kind, str, members, items) ==
  [kind |-> kind, str |-> str, members |-> members, items |-> items]
JStr(s) == JValue("string", s, <<>>, <<>>)
JNumber == JValue("number", EmptyStr, <<>>, <<>>)
JNull == JValue("null", EmptyStr, <<>>, <<>>)
JAbsent == JValue("absent", EmptyStr, <<>>, <<>>)
JObject(members) == JValue("object", EmptyStr, members, <<>>)
JArray(items) == JValue("array", EmptyStr, <<>>, items)

\* (mutant) the command field carries another tag than the serialized member.
CmdTag_Misnamed == "command"

\* The json tags of the fields of CmdEntry and Cmds.
CmdTag == "cmd"
CommentTag == "comment"
CmdsTag == "cmds"

\* encoding/json matches a member name to a field tag exactly or, failing
\* that, ignoring case; Fold is the case folding of the names used here.
Fold(name) == IF name = "Cmd" THEN "cmd" ELSE name

\* The member of an object that json.Unmarshal stores in the field with the
\* given tag (no object here has two names that fold to one tag).
Member(obj, tag) ==
  LET keys == {k \in DOMAIN obj.members : Fold(k) = tag}
  IN  IF keys = {} THEN JAbsent ELSE obj.members[CHOOSE k \in keys : TRUE]

\* {"cmds":[{"cmd":...,"comment":...},...]} for a command set.
MarshalCmds(cs) ==
  JObject([cmds |-> JArray([i \in DOMAIN cs |->
             JObject([cmd |-> JStr(cs[i].Cmd), comment |-> JStr(cs[i].Comment)])])])

\* A body cut off in the middle: not JSON.
TruncatedContent == JValue("invalid", EmptyStr, <<>>, <<>>)

\* What json.Unmarshal leaves in a string field of CmdEntry: an absent member
\* and a null leave the zero value, a value of another type is an error.
FieldOK(f) == f.kind \in {"absent", "null", "string"}
FieldValue(f) == IF f.kind = "string" THEN f.str ELSE EmptyStr

\* json.Unmarshal of one item of the array into a CmdEntry: a null leaves the
\* zero entry, members no field is tagged with are skipped.
ItemOK(v) ==
  \/ v.kind = "null"
  \/ v.kind = "object" /\ FieldOK(Member(v, CmdTag)) /\ FieldOK(Member(v, CommentTag))
ItemValue(v) ==
  [Cmd |-> FieldValue(Member(v, CmdTag)), Comment |-> FieldValue(Member(v, CommentTag))]

\* json.Unmarshal([]byte(content), &result) for result of type Cmds: a null
\* and an absent member leave the zero value, a member of the wrong type is
\* an error, and so is a text that is not JSON.
Unmarshal(content) ==
  LET cmds == Member(content, CmdsTag)
      filled == content.kind = "object" /\ cmds.kind = "array"
      ok == \/ content.kind = "null"
            \/ /\ content.kind = "object"
               /\ \/ cmds.kind \in {"absent", "null"}
                  \/ cmds.kind = "array" /\ \A i \in DOMAIN cmds.items : ItemOK(cmds.items[i])
  IN  [ok |-> ok,
       Cmds |-> IF ok /\ filled
                THEN [i \in DOMAIN cmds.items |-> ItemValue(cmds.items[i])]
                ELSE <<>>]

\* The schema sent with the request, reflected from Cmds: an object with
\* exactly the member "cmds", an array of objects with exactly the string
\* members "cmd" and "comment".
SchemaValid(content) ==
  /\ content.kind = "object"
  /\ DOMAIN content.members = {"cmds"}
  /\ content.members["cmds"].kind = "array"
  /\ \A i \in DOMAIN content.members["cmds"].items :
       LET item == content.members["cmds"].items[i]
       IN  /\ item.kind = "object"
           /\ DOMAIN item.members = {"cmd", "comment"}
           /\ item.members["cmd"].kind = "string"
           /\ item.members["comment"].kind = "string"

\* The zero ChatResult[Cmds].
ZeroResult == [Message |-> <<>>, Cost |-> FZero]

\* (mutant) an empty key is accepted and a client is built with it.
newClient_AcceptsEmptyKey(e) ==
  [apiKey |-> IF e.cforKey # "" THEN e.cforKey ELSE e.openaiKey, err |-> NoError]

\* (mutant) OPENAI_API_KEY is read first and CFOR_OPENAI_API_KEY is the fallback.
newClient_GeneralFirst(e) ==
  LET apiKey == IF e.openaiKey # "" THEN e.openaiKey ELSE e.cforKey
  IN  IF apiKey = ""
      THEN [apiKey |-> "", err |-> Err("APIKeyMissingError", TRUE, "")]
      ELSE [apiKey |-> apiKey, err |-> NoError]

\* CFOR_OPENAI_API_KEY takes precedence over OPENAI_API_KEY.
newClient(e) ==
  LET apiKey == IF e.cforKey # "" THEN e.cforKey ELSE e.openaiKey
  IN  IF apiKey = ""
      THEN [apiKey |-> "", err |-> Err("APIKeyMissingError", TRUE, "")]
      ELSE [apiKey |-> apiKey, err |-> NoError]

\* What GenerateCmds and chatStructured hand back: the result, the error, the
\* number of requests sent, the key a request carried, and whether the call
\* panicked instead of returning.
Returned(res, err, net, key, panic) ==
  [result |-> res, err |-> err, net |-> net, key |-> key, panic |-> panic]

\* chatStructured[Cmds], for the response resp the backend gives to the request.
chatStructured(e, model, resp) ==
  LET client == newClient(e)
      parsed == Unmarshal(resp.content)
  IN  IF client.err # NoError
      THEN Returned(ZeroResult, client.err, 0, "", FALSE)
      ELSE IF resp.kind = "error"
      THEN Returned(ZeroResult, Err("OpenAIRequestError", TRUE, ""), 1, client.apiKey, FALSE)
      ELSE IF resp.kind = "nochoice"
      THEN Returned(ZeroResult, NoError, 1, client.apiKey, TRUE)
      ELSE IF ~parsed.ok
      THEN Returned(ZeroResult, Err("JSONParseError", TRUE, ""), 1, client.apiKey, FALSE)
      ELSE Returned([Message |-> parsed.Cmds, Cost |-> EstimateCost(model, resp.usage, e.fusion)],
                    NoError, 1, client.apiKey, FALSE)

DefaultModel == "gpt-4o"

\* (mutant) the client is built before the model is looked up in the allow-list.
GenerateCmds_ClientFirst(e, resp) ==
  LET model == IF e.model = "" THEN DefaultModel ELSE e.model
      client == newClient(e)
  IN  IF client.err # NoError
      THEN Returned(ZeroResult, client.err, 0, "", FALSE)
      ELSE IF ~IsSupportedModel(model)
      THEN Returned(ZeroResult, Err("UnsupportedModelError", FALSE, model), 0, "", FALSE)
      ELSE chatStructured(e, model, resp)

GenerateCmds(e, resp) ==
  LET model == IF e.model = "" THEN DefaultModel ELSE e.model
  IN  IF ~IsSupportedModel(model)
      THEN Returned(ZeroResult, Err("UnsupportedModelError", FALSE, model), 0, "", FALSE)
      ELSE chatStructured(e, model, resp)

\* Token usage counters.
Usage(p, c, o) == [PromptTokens |-> p, CachedTokens |-> c, CompletionTokens |-> o]

NoUsage == Usage(0, 0, 0)

\* The usage a completion reports in a run of the orchestrator.
Usages == {Usage(1000, 0, 500)}

\* The log entry of a response that is not logged.
NoResponse == [kind |-> "none", content |-> TruncatedContent, usage |-> NoUsage]

\* What the backend can answer to one request: a transport or HTTP error, a
\* completion without any choice, or a completion with a message content.
Responses ==
  {[kind |-> "error", content |-> TruncatedContent, usage |-> NoUsage],
   [kind |-> "nochoice", content |-> TruncatedContent, usage |-> NoUsage]}
  \cup {[kind |-> "ok", content |-> c, usage |-> u] :
          c \in {TruncatedContent} \cup {MarshalCmds(cs) : cs \in CmdSets}, u \in Usages}

\* ------------------------------------------------- cost ledger (cmd.go)

\* Calendar days: day 0 lies before the run, which starts on day 1 and may
\* pass one midnight.
Days == {0, 1, 2}

LastDay == CHOOSE d \in Days : \A e \in Days : e <= d

NoCosts == [d \in Days |-> FZero]

\* The ledger file: absent, valid (a JSON object of day -> amount, with the
\* days it holds), corrupt (not such an object: the days are the entries its
\* text holds beside what cannot be parsed) or null (the JSON text null).
CostFile(kind, days, amt) == [kind |-> kind, days |-> days, amt |-> amt]

\* DeleteCostEntry(day), as Table.Update calls it: the entry of the day is
\* taken out of the ledger file.
DeleteCostEntry(file, day) ==
  CostFile("valid", file.days \ {day}, [file.amt EXCEPT ![day] = FZero])

\* How the file system answers one UpdateCost call: "ok"; "fail" (the path
\* cannot be determined or the directory cannot be created: the file is
\* neither read nor written); "readfail" (a file that is there cannot be
\* read, and is written); "openfail" (the file cannot be opened for writing
\* and is left alone); "writefail" (the file is opened, which empties it,
\* and the write fails).
IOOutcomes == {"ok", "fail"}
LedgerIOOutcomes == IOOutcomes \cup {"readfail", "openfail", "writefail"}

\* What an UpdateCost call comes to.
Updated(file, failed, panic) == [file |-> file, failed |-> failed, panic |-> panic]

\* Lines 276-282: the map UpdateCost has after reading the file.  A file
\* that is absent, unread, empty or not a JSON object of numbers gives the
\* empty map; a file that holds null turns the map into nil.
CostsRead(file, io) ==
  LET read == file.kind # "absent" /\ io # "readfail"
      readable == read /\ file.kind = "valid"
  IN  [isNil |-> read /\ file.kind = "null",
       days |-> IF readable THEN file.days ELSE {},
       amt |-> IF readable THEN file.amt ELSE NoCosts]

\* Lines 283-294: the cost is added to the day's entry of the map and the
\* map is written over the file, whatever the file holds by now.  The
\* assignment to an entry of a nil map panics.
CostsWritten(file, costs, day, cost, io) ==
  IF costs.isNil THEN Updated(file, FALSE, TRUE)
  ELSE IF io = "openfail" THEN Updated(file, TRUE, FALSE)
  ELSE IF io = "writefail" THEN Updated(CostFile("corrupt", {}, NoCosts), TRUE, FALSE)
  ELSE Updated(CostFile("valid", costs.days \cup {day}, [costs.amt EXCEPT ![day] = FAdd(@, cost)]),
               FALSE, FALSE)

\* UpdateCost(cost) on day `day` when no other process writes the file
\* meanwhile: the new file, whether an error is returned, and whether the
\* call panics.
UpdateCost(file, day, cost, io) ==
  IF io = "fail" THEN Updated(file, TRUE, FALSE)
  ELSE CostsWritten(file, CostsRead(file, io), day, cost, io)

\* No UpdateCost call is running.
NoUpdate == [io |-> "none", day |-> 0, costs |-> CostsRead(CostFile("absent", {}, NoCosts), "ok"),
             before |-> CostFile("absent", {}, NoCosts)]

\* ------------------------------------------------------- selector (ui.go)

Space == 32
Hash == 35

NewCmdSelector(cmds) ==
  [cmds |-> cmds, cursor |-> 0, selected |-> EmptyStr, quit |-> FALSE, rerun |-> FALSE]

\* The messages the UI program can deliver to Update: key presses by name
\* ("x" stands for every key without a binding) and a message that is no key.
KeyMsgs == {"ctrl+c", "q", "up", "k", "down", "j", "r", "enter", " ", "x"}
Msgs == KeyMsgs \cup {"WindowSizeMsg"}

\* (mutant) the cursor is decremented without the test for the first row.
CursorUp_NoWrap(cursor, n) == cursor - 1

\* Lines 44-48: the cursor after "up" or "k", n being len(m.cmds).
CursorUp(cursor, n) == IF cursor > 0 THEN cursor - 1 ELSE n - 1

\* (mutant) the cursor stays on the last row instead of going to the first.
CursorDown_Saturating(cursor, n) == IF cursor < n - 1 THEN cursor + 1 ELSE cursor

\* Lines 50-54: the cursor after "down" or "j", n being len(m.cmds).
CursorDown(cursor, n) == IF cursor < n - 1 THEN cursor + 1 ELSE 0

\* (mutant) a key without a binding falls into the case of the quit keys.
Update_OtherKeyQuits(m, msg) ==
  LET n == Len(m.cmds)
      same == [m |-> m, quitCmd |-> FALSE, panic |-> FALSE]
  IN  IF msg \in {"ctrl+c", "q", "x"}
      THEN [m |-> [m EXCEPT !.quit = TRUE], quitCmd |-> TRUE, panic |-> FALSE]
      ELSE IF msg \in {"up", "k"}
      THEN [same EXCEPT !.m.cursor = CursorUp(m.cursor, n)]
      ELSE IF msg \in {"down", "j"}
      THEN [same EXCEPT !.m.cursor = CursorDown(m.cursor, n)]
      ELSE IF msg = "r"
      THEN [m |-> [m EXCEPT !.rerun = TRUE], quitCmd |-> TRUE, panic |-> FALSE]
      ELSE IF msg \in {"enter", " "}
      THEN IF m.cursor >= 0 /\ m.cursor < n
           THEN [m |-> [m EXCEPT !.selected = m.cmds[m.cursor + 1]],
                 quitCmd |-> TRUE, panic |-> FALSE]
           ELSE [same EXCEPT !.panic = TRUE]
      ELSE same

\* CmdSelector.Update: the model after the message, whether tea.Quit is
\* returned, and whether m.cmds[m.cursor] is out of range (a panic).  The
\* cursor is Go's 0-based index.
Update(m, msg) ==
  LET n == Len(m.cmds)
      same == [m |-> m, quitCmd |-> FALSE, panic |-> FALSE]
  IN  IF msg \in {"ctrl+c", "q"}
      THEN [m |-> [m EXCEPT !.quit = TRUE], quitCmd |-> TRUE, panic |-> FALSE]
      ELSE IF msg \in {"up", "k"}
      THEN [same EXCEPT !.m.cursor = CursorUp(m.cursor, n)]
      ELSE IF msg \in {"down", "j"}
      THEN [same EXCEPT !.m.cursor = CursorDown(m.cursor, n)]
      ELSE IF msg = "r"
      THEN [m |-> [m EXCEPT !.rerun = TRUE], quitCmd |-> TRUE, panic |-> FALSE]
      ELSE IF msg \in {"enter", " "}
      THEN IF m.cursor >= 0 /\ m.cursor < n
           THEN [m |-> [m EXCEPT !.selected = m.cmds[m.cursor + 1]],
                 quitCmd |-> TRUE, panic |-> FALSE]
           ELSE [same EXCEPT !.panic = TRUE]
      ELSE same

\* The longest command of the set, in bytes.
MaxCmdLength(cmds) ==
  IF cmds = <<>> THEN 0
  ELSE CHOOSE l \in {ByteLen(cmds[i].Cmd) : i \in DOMAIN cmds} :
         \A i \in DOMAIN cmds : ByteLen(cmds[i].Cmd) <= l

\* The rows SelectCmd displays: the command, padded, then "# comment".
CommentedCmds(cmds) ==
  [i \in DOMAIN cmds |->
     IF cmds[i].Comment # EmptyStr
     THEN cmds[i].Cmd
          \o Repeat(Space, MaxCmdLength(cmds) - ByteLen(cmds[i].Cmd) + 2)
          \o <<Hash, Space>> \o cmds[i].Comment
     ELSE cmds[i].Cmd]

\* What SelectCmd returns once p.Run has returned runErr: the command, the
\* error, and whether cmds[model.cursor] is out of range (a panic).
SelectCmdReturn(cmds, m, runErr) ==
  LET ret(cmd, err, panic) == [cmd |-> cmd, err |-> err, panic |-> panic]
  IN  IF runErr # NoError THEN ret(EmptyStr, runErr, FALSE)
      ELSE IF m.quit THEN ret(EmptyStr, Err("QuitError", FALSE, ""), FALSE)
      ELSE IF m.rerun THEN ret(EmptyStr, Err("RerunError", FALSE, ""), FALSE)
      ELSE IF m.cursor >= 0 /\ m.cursor < Len(cmds)
      THEN ret(cmds[m.cursor + 1].Cmd, NoError, FALSE)
      ELSE ret(EmptyStr, NoError, TRUE)

\* ------------------------------------------- terminal injector (cmd.go)

\* The operating systems the program can be built for; "freebsd" stands for
\* every one that injectToPrompt's switch does not name.
GOOSes == {"linux", "darwin", "freebsd"}

\* The ioctl request identifiers injectToPrompt selects, by name; "0" is the
\* zero value the variables keep when no case of the switch matches.
IoctlIds(goos) ==
  IF goos = "linux"
  THEN [getTermios |-> "TCGETS", setTermios |-> "TCSETS",
        tiocsti |-> "TIOCSTI", sysIoctl |-> "SYS_IOCTL"]
  ELSE IF goos = "darwin"
  THEN [getTermios |-> "TIOCGETA", setTermios |-> "TIOCSETA",
        tiocsti |-> "TIOCSTI", sysIoctl |-> "SYS_IOCTL"]
  ELSE [getTermios |-> "0", setTermios |-> "0", tiocsti |-> "0", sysIoctl |-> "0"]

\* The kernel serves a request only under an identifier it knows.
KnownRequest(id) == id # "0"

\* The byte TIOCSTI reads at the address of a rune (a little-endian int32).
StiByte(char) == char % 256

\* Terminal settings: the ECHO and ICANON bits of Lflag.
Termios(echo, icanon) == [echo |-> echo, icanon |-> icanon]

\* termios.Lflag &^= unix.ECHO
DisableEcho(t) == [t EXCEPT !.echo = FALSE]

\* The error injectToPrompt returns: nil, one of the three wrapped ioctl
\* errors, or InjectError{Char}.
InjErr(kind, char) == [kind |-> kind, char |-> char]

NoInjErr == InjErr("nil", 0)

\* --------------------------------------------------- rootCmd.Run (cmd.go)

\* args[0]
Question == "list files by modification time"

\* The message rootCmd.Run prints for a GenerateCmds error.
GenerateErrorMessage(err) ==
  IF ErrorsIs(err, Err("APIKeyMissingError", TRUE, "")) THEN "api key hint"
  ELSE IF ErrorsIs(err, Err("UnsupportedModelError", TRUE, "")) THEN "supported models"
  ELSE "Error generating commands."

\* (mutant) the QuitError is not recognised.
HandleQuitError_Never(err) == FALSE

\* HandleQuitError: os.Exit(0) for a QuitError.
HandleQuitError(err) == ErrorsIs(err, Err("QuitError", FALSE, ""))

\* (mutant) every error of SelectCmd other than a QuitError asks again.
SelectDispatch_RetryOnError(ret) ==
  IF ret.err # NoError
  THEN IF ErrorsIs(ret.err, Err("QuitError", FALSE, "")) THEN "quit" ELSE "rerun"
  ELSE "inject"

\* What rootCmd.Run does with the (selectedCmd, err) SelectCmd returned.
SelectDispatch(ret) ==
  IF ret.err # NoError
  THEN IF ErrorsIs(ret.err, Err("RerunError", FALSE, "")) THEN "rerun"
       ELSE IF HandleQuitError(ret.err) THEN "quit"
       ELSE "fail"
  ELSE "inject"

\* The argument rootCmd.Run passes to injectToPrompt.
InjectArg(ret) == ret.cmd

\* (mutant) the error of injectToPrompt is dropped.
InjectExit_Ignored(err) == 0

\* The exit status after injectToPrompt returned err.
InjectExit(err) == IF err # NoInjErr THEN 1 ELSE 0

\* The question rootCmd.Run passes to GenerateCmds.
GenerateArg == Question

\* Whether rootCmd.Run calls UpdateCost after GenerateCmds returned err: line 61
\* runs before the error is looked at.
CallsUpdateCost(err) == TRUE

\* (mutant) the run ends when the cost could not be recorded.
UpdateCostErrorExits_Aborts(failed) == failed

\* Whether rootCmd.Run ends on what UpdateCost returned: line 61 is a call
\* statement, the returned error is dropped.
UpdateCostErrorExits(failed) == FALSE

\* The selector of the running SelectCmd call and its UI program: whether
\* tea.Quit was returned, which binding did so first, at which cursor, and
\* the messages delivered to Update, where they are logged.
Idle == [m |-> NewCmdSelector(<<>>), quitting |-> FALSE, first |-> "none", firstCursor |-> 0,
         log |-> <<>>]

\* The binding a key belongs to.
Binding(msg) ==
  IF msg \in {"ctrl+c", "q"} THEN "quit"
  ELSE IF msg = "r" THEN "rerun"
  ELSE IF msg \in {"enter", " "} THEN "select"
  ELSE IF msg \in {"up", "k"} THEN "up"
  ELSE IF msg \in {"down", "j"} THEN "down"
  ELSE "none"

\* What a SelectCmd call came to: "Selected", "Quit", "Rerun", "Error" (another
\* error) or "Panic".
Outcome(ret) ==
  IF ret.panic THEN "Panic"
  ELSE IF ret.err = NoError THEN "Selected"
  ELSE IF ret.err.type = "QuitError" THEN "Quit"
  ELSE IF ret.err.type = "RerunError" THEN "Rerun"
  ELSE "Error"

NoOutcome == [kind |-> "none", cmd |-> EmptyStr, next |-> "none"]

NoInject == [cmd |-> EmptyStr, idx |-> 1, termios |-> Termios(FALSE, FALSE),
             original |-> Termios(FALSE, FALSE)]

EmptyInjLog == [calls |-> 0, arg |-> EmptyStr, ops |-> <<>>, err |-> NoInjErr,
                before |-> Termios(FALSE, FALSE), returned |-> FALSE]

\* The ledger files a run of the orchestrator starts with, besides none: one
\* with an entry of an earlier day, and one that is not valid JSON.
InitialCostFiles ==
  {CostFile("valid", {0}, [NoCosts EXCEPT ![0] = Float64(7000)]),
   CostFile("corrupt", {}, NoCosts)}

\* The environments of a run.  The credentials and the model override are
\* varied together on one platform, the platform with the terminal, and the
\* ledger file in one environment.
Environment(goos, cforKey, openaiKey, model) ==
  [goos |-> goos, cforKey |-> cforKey, openaiKey |-> openaiKey, model |-> model,
   fusion |-> NoFusion]

\* The environment e with a build that fuses.
Built(e, fusion) == [e EXCEPT !.fusion = fusion]

CredentialEnvs ==
  {Environment("linux", c, o, m) :
     c \in {"", "sk-cfor"}, o \in {"", "sk-openai"}, m \in {"", "gpt-3.5-turbo", "GPT-4o"}}
  \cup {Environment("linux", "", "", OpenAIModelGPT4oMini),
        Environment("linux", "sk-cfor", "sk-openai", OpenAIModelGPT4oMini)}

PlatformEnvs ==
  {Environment(g, "", "sk-openai", "") : g \in GOOSes}
  \cup {Built(Environment("darwin", "", "sk-openai", ""), Fusion("first", TRUE))}

Init ==
  /\ \/ /\ env \in CredentialEnvs
        /\ tty = Termios(TRUE, TRUE)
        /\ costFile = CostFile("absent", {}, NoCosts)
     \/ /\ env \in PlatformEnvs
        /\ tty \in {Termios(e, TRUE) : e \in IF env.goos = "linux" THEN BOOLEAN ELSE {TRUE}}
        /\ costFile = CostFile("absent", {}, NoCosts)
     \/ /\ env = Environment("linux", "", "sk-openai", "")
        /\ tty = Termios(TRUE, TRUE)
        /\ costFile \in InitialCostFiles
  /\ pc = "loop"
  /\ exitCode = -1
  /\ printed = <<>>
  /\ genCalls = 0
  /\ genArgs = <<>>
  /\ netCalls = 0
  /\ genErr = NoError
  /\ result = ZeroResult
  /\ today = 1
  /\ costLog = [initial |-> costFile, calls |-> <<>>, deletes |-> 0]
  /\ upd = NoUpdate
  /\ sel = Idle
  /\ selOutcome = NoOutcome
  /\ rerunCount = 0
  /\ ttyQueue = <<>>
  /\ inj = NoInject
  /\ injLog = EmptyInjLog

\* os.Exit(code), or the return of rootCmd.Run (code 0), or a panic (code 2),
\* after printing msgs.
Exit(code, msgs) ==
  /\ pc' = "exited"
  /\ exitCode' = code
  /\ printed' = printed \o msgs

\* Midnight passes.  time.Now() is read by UpdateCost only, so the day is let
\* change at the top of the loop.
Tick ==
  /\ pc = "loop"
  /\ today < LastDay
  /\ today' = today + 1
  /\ UNCHANGED <<env, pc, exitCode, printed, genCalls, genArgs, netCalls, genErr, result,
                 costFile, costLog, upd, sel, selOutcome, rerunCount, tty, ttyQueue, inj, injLog>>

\* Lines 62-76: what rootCmd.Run does once UpdateCost is over, GenerateCmds
\* having returned err.
AfterCost(err, called, done) ==
  IF called /\ done.panic
  THEN Exit(2, <<>>)
  ELSE IF called /\ UpdateCostErrorExits(done.failed)
  THEN Exit(1, <<>>)
  ELSE IF err # NoError
  THEN Exit(1, <<GenerateErrorMessage(err)>>)
  ELSE /\ pc' = "select"
       /\ UNCHANGED <<exitCode, printed>>

\* The log entry of a file that is not logged.
NoFile == CostFile("absent", {}, NoCosts)

\* The log entry of an UpdateCost call that is over; the file it read and
\* the file it left are logged where logging is on.
CostCall(io, day, before, after, logging) ==
  [cost |-> result.Cost, day |-> day, io |-> io, afterError |-> genErr # NoError,
   before |-> IF logging THEN before ELSE NoFile,
   after |-> IF logging THEN after ELSE NoFile]

\* Lines 59-60: GenerateCmds, the backend answering with one of responses;
\* the response is logged where logging is on.
Generate(responses, logging) ==
  /\ pc = "loop"
  /\ \E resp \in responses :
       LET r == GenerateCmds(env, resp)
       IN  /\ genCalls' = genCalls + 1
           /\ genArgs' = Append(genArgs, [question |-> GenerateArg, key |-> r.key,
                                           net |-> r.net,
                                           resp |-> IF logging THEN resp ELSE NoResponse])
           /\ netCalls' = netCalls + r.net
           /\ IF r.panic
              THEN /\ Exit(2, <<>>)
                   /\ UNCHANGED <<genErr, result>>
              ELSE /\ genErr' = r.err
                   /\ result' = r.result
                   /\ IF CallsUpdateCost(r.err)
                      THEN /\ pc' = "cost"
                           /\ UNCHANGED <<exitCode, printed>>
                      ELSE AfterCost(r.err, FALSE, Updated(costFile, FALSE, FALSE))
  /\ UNCHANGED <<env, today, costFile, costLog, upd, sel, selOutcome, rerunCount, tty,
                 ttyQueue, inj, injLog>>

\* Line 61, lines 264-282 of UpdateCost: the path and the directory, the day,
\* and the file read into the map, the file system answering with one of
\* ios.  When the path or the directory fails the call is over.
UpdateCostRead(ios, logging) ==
  /\ pc = "cost"
  /\ \E io \in ios :
       IF io = "fail"
       THEN /\ costLog' = [costLog EXCEPT
                             !.calls = Append(@, CostCall(io, today, costFile, costFile, logging))]
            /\ AfterCost(genErr, TRUE, Updated(costFile, TRUE, FALSE))
            /\ UNCHANGED upd
       ELSE /\ upd' = [io |-> io, day |-> today, costs |-> CostsRead(costFile, io),
                       before |-> IF logging THEN costFile ELSE NoFile]
            /\ pc' = "cost_write"
            /\ UNCHANGED <<costLog, exitCode, printed>>
  /\ UNCHANGED <<env, genCalls, genArgs, netCalls, genErr, result, today, costFile, sel,
                 selOutcome, rerunCount, tty, ttyQueue, inj, injLog>>

\* Lines 283-294 of UpdateCost and lines 62-76: the map is written over the
\* file, and rootCmd.Run goes on.
UpdateCostWrite(logging) ==
  /\ pc = "cost_write"
  /\ LET done == CostsWritten(costFile, upd.costs, upd.day, result.Cost, upd.io)
     IN  /\ costFile' = done.file
         /\ costLog' = [costLog EXCEPT
                          !.calls = Append(@, CostCall(upd.io, upd.day, upd.before, done.file, logging))]
         /\ AfterCost(genErr, TRUE, done)
  /\ upd' = NoUpdate
  /\ UNCHANGED <<env, genCalls, genArgs, netCalls, genErr, result, today, sel, selOutcome,
                 rerunCount, tty, ttyQueue, inj, injLog>>

\* `cfor cost` in another process: backspace or d on the row of a day in the
\* table (Table.Update) deletes the day's entry from the ledger file, at any
\* moment of the run.  The table has a row for each day of a file GetCosts
\* could parse.
CostDelete ==
  /\ costFile.kind = "valid"
  /\ costLog.deletes < MaxDeletes
  /\ \E d \in costFile.days : costFile' = DeleteCostEntry(costFile, d)
  /\ costLog' = [costLog EXCEPT !.deletes = @ + 1]
  /\ UNCHANGED <<env, pc, exitCode, printed, genCalls, genArgs, netCalls, genErr, result,
                 today, upd, sel, selOutcome, rerunCount, tty, ttyQueue, inj, injLog>>

\* One iteration's request in a run of the orchestrator.
RunGenerate == Generate(Responses, FALSE)

\* Its UpdateCost call up to the read of the file.
RunCostRead == UpdateCostRead(IOOutcomes, FALSE)

\* Its UpdateCost call from the addition on.
RunCostWrite == UpdateCostWrite(FALSE)

\* An UpdateCost call writes, logged.
LoggedCostWrite == UpdateCostWrite(TRUE)

\* SelectCmd up to p.Run: the rows, the selector, the UI program started.
SelectStart ==
  /\ pc = "select"
  /\ pc' = "ui"
  /\ sel' = [Idle EXCEPT !.m = NewCmdSelector(CommentedCmds(result.Message))]
  /\ selOutcome' = NoOutcome
  /\ UNCHANGED <<env, exitCode, printed, genCalls, genArgs, netCalls, genErr, result, today,
                 costFile, costLog, upd, rerunCount, tty, ttyQueue, inj, injLog>>

\* SelectCmd has returned ret, its selector is gone: lines 78-91 of
\* rootCmd.Run.  A rerun leaves the iteration and its result.  log is the
\* log of the selector's messages.
AfterSelect(ret, log) ==
  LET next == IF ret.panic THEN "panic" ELSE SelectDispatch(ret)
  IN  /\ selOutcome' = [kind |-> Outcome(ret), cmd |-> ret.cmd, next |-> next]
      /\ rerunCount' = IF Outcome(ret) = "Rerun" THEN rerunCount + 1 ELSE rerunCount
      /\ sel' = [Idle EXCEPT !.log = log]
      /\ IF next = "panic"
         THEN Exit(2, <<>>) /\ UNCHANGED <<inj, injLog, result>>
         ELSE IF next = "rerun"
         THEN /\ pc' = "loop"
              /\ result' = ZeroResult
              /\ UNCHANGED <<exitCode, printed, inj, injLog>>
         ELSE IF next = "quit"
         THEN Exit(0, <<>>) /\ UNCHANGED <<inj, injLog, result>>
         ELSE IF next = "fail"
         THEN /\ Exit(1, <<"Error selecting command">>)
              /\ UNCHANGED <<inj, injLog, result>>
         ELSE /\ pc' = "inj_get"
              /\ inj' = [NoInject EXCEPT !.cmd = InjectArg(ret)]
              /\ injLog' = [EmptyInjLog EXCEPT !.calls = injLog.calls + 1,
                                               !.arg = InjectArg(ret), !.before = tty]
              /\ UNCHANGED <<exitCode, printed, result>>

\* The UI program delivers one message to Update.  After tea.Quit was
\* returned the program stops only when its QuitMsg is handled, and messages
\* that were queued before it are still delivered.  A panic in Update is
\* recovered by the UI program, whose Run then returns nil or an error,
\* depending on its version.  With logging, the message is logged and at
\* most MaxKeys messages are delivered.
Deliver(logging) ==
  /\ pc = "ui"
  /\ logging => Len(sel.log) < MaxKeys
  /\ \E msg \in Msgs :
       LET u == Update(sel.m, msg)
           log == IF logging THEN Append(sel.log, msg) ELSE sel.log
       IN  /\ msg = "r" => rerunCount < MaxReruns
           /\ IF u.panic
              THEN /\ \E runErr \in {NoError, Err("ErrProgramPanic", TRUE, "")} :
                        AfterSelect(SelectCmdReturn(result.Message, sel.m, runErr), log)
              ELSE /\ sel' = [m |-> u.m,
                              log |-> log,
                              quitting |-> sel.quitting \/ u.quitCmd,
                              first |-> IF ~sel.quitting /\ u.quitCmd THEN Binding(msg)
                                        ELSE sel.first,
                              firstCursor |-> IF ~sel.quitting /\ u.quitCmd THEN sel.m.cursor
                                              ELSE sel.firstCursor]
                   /\ UNCHANGED <<pc, exitCode, printed, selOutcome, rerunCount, inj,
                                  injLog, result>>
  /\ UNCHANGED <<env, genCalls, genArgs, netCalls, genErr, today, costFile, costLog, upd,
                 tty, ttyQueue>>

\* A message is delivered to the selector of a run.
UIMsg == Deliver(FALSE)

\* A message is delivered to a selector whose messages are logged.
UIKey == Deliver(TRUE)

\* p.Run returns nil and SelectCmd returns: the QuitMsg of tea.Quit is
\* handled, or the program is stopped from outside with no key handled, and
\* lines 165-173 look at the flags and the cursor as they are.
UIStop ==
  /\ pc = "ui"
  /\ AfterSelect(SelectCmdReturn(result.Message, sel.m, NoError), sel.log)
  /\ UNCHANGED <<env, genCalls, genArgs, netCalls, genErr, today, costFile, costLog, upd,
                 tty, ttyQueue>>

\* p.Run returns an error (no terminal to open, input cannot be read, the
\* program is killed), whatever keys were handled: lines 160-163.
UIFail ==
  /\ pc = "ui"
  /\ AfterSelect(SelectCmdReturn(result.Message, sel.m, Err("UIError", TRUE, "")), sel.log)
  /\ UNCHANGED <<env, genCalls, genArgs, netCalls, genErr, today, costFile, costLog, upd,
                 tty, ttyQueue>>

\* ----------------------------------------------- injectToPrompt (cmd.go)

\* One terminal operation of injectToPrompt and whether it succeeded.
Op(name, ok) == [op |-> name, ok |-> ok]

\* injectToPrompt returns err to rootCmd.Run: lines 91-97.
InjectReturn(err, ops) ==
  /\ injLog' = [injLog EXCEPT !.err = err, !.returned = TRUE, !.ops = injLog.ops \o ops]
  /\ IF InjectExit(err) # 0
     THEN Exit(InjectExit(err), <<"Error injecting command into prompt">>)
     ELSE Exit(0, <<>>)

\* Whether the failing branch of the injection loop writes the snapshot back
\* before it returns (line 144).
RestoresOnInjectFailure == TRUE

\* (mutant) the function returns after the loop without the write-back.
RestoresAfterLoop_Skipped == FALSE

\* Whether injectToPrompt writes the snapshot back after the loop (line 150).
RestoresAfterLoop == TRUE

\* (mutant) the settings are applied as they were read.
SettingsToApply_EchoKept(termios) == termios

\* The settings line 130 applies: the ones read, with ECHO cleared.
SettingsToApply(termios) == DisableEcho(termios)

\* (mutant) the outcome of applying the settings is not looked at.
ReturnsOnDisableEchoFailure_Continues == FALSE

\* Whether injectToPrompt returns when the settings without echo could not
\* be applied (lines 130-132).
ReturnsOnDisableEchoFailure == TRUE

\* (mutant) the write-back passes the settings that were modified, as it
\* would had originalTermios been kept as a pointer instead of a copy.
SettingsToRestore_Modified(locals) == locals.termios

\* The settings lines 144 and 150 write back.
SettingsToRestore(locals) == locals.original

\* Lines 119-126: read the terminal settings and keep a copy.
InjectGet ==
  /\ pc = "inj_get"
  /\ \E ok \in BOOLEAN :
       /\ ok => KnownRequest(IoctlIds(env.goos).getTermios)
       /\ IF ok
          THEN /\ inj' = [inj EXCEPT !.termios = tty, !.original = tty]
               /\ injLog' = [injLog EXCEPT !.ops = Append(@, Op("get", TRUE))]
               /\ pc' = "inj_set"
               /\ UNCHANGED <<exitCode, printed>>
          ELSE /\ InjectReturn(InjErr("failed to get terminal settings", 0),
                               <<Op("get", FALSE)>>)
               /\ UNCHANGED inj
  /\ UNCHANGED <<env, genCalls, genArgs, netCalls, genErr, result, today, costFile, costLog, upd,
                 sel, selOutcome, rerunCount, tty, ttyQueue>>

\* Lines 128-132: clear ECHO and apply the settings.
InjectDisableEcho ==
  /\ pc = "inj_set"
  /\ \E ok \in BOOLEAN :
       /\ ok => KnownRequest(IoctlIds(env.goos).setTermios)
       /\ inj' = [inj EXCEPT !.termios = SettingsToApply(inj.termios)]
       /\ IF ok \/ ~ReturnsOnDisableEchoFailure
          THEN /\ tty' = IF ok THEN inj'.termios ELSE tty
               /\ injLog' = [injLog EXCEPT !.ops = Append(@, Op("disable echo", ok))]
               /\ pc' = "inj_loop"
               /\ UNCHANGED <<exitCode, printed>>
          ELSE /\ tty' = tty
               /\ InjectReturn(InjErr("failed to disable terminal echo", 0),
                               <<Op("disable echo", FALSE)>>)
  /\ UNCHANGED <<env, genCalls, genArgs, netCalls, genErr, result, today, costFile, costLog, upd,
                 sel, selOutcome, rerunCount, ttyQueue>>

\* (mutant) a failed write-back replaces the error of the failed injection.
InjectFailureError_RestoreMasks(char, restored) ==
  IF restored THEN InjErr("InjectError", char)
  ELSE InjErr("failed to restore terminal settings", 0)

\* The error returned when TIOCSTI failed for char: line 144 drops the result
\* of the write-back and line 145 returns InjectError{Char: char}.
InjectFailureError(char, restored) == InjErr("InjectError", char)

\* Lines 135-147: one round of the loop.  A failed TIOCSTI writes the
\* snapshot back, ignoring the outcome, and returns InjectError.
InjectChar ==
  /\ pc = "inj_loop"
  /\ inj.idx <= Len(inj.cmd)
  /\ \E ok \in BOOLEAN, restored \in BOOLEAN :
       LET char == inj.cmd[inj.idx]
       IN  /\ ok => KnownRequest(IoctlIds(env.goos).tiocsti)
           /\ IF ok
              THEN /\ restored
                   /\ ttyQueue' = Append(ttyQueue, StiByte(char))
                   /\ inj' = [inj EXCEPT !.idx = @ + 1]
                   /\ injLog' = [injLog EXCEPT !.ops = Append(@, Op("inject", TRUE))]
                   /\ UNCHANGED <<pc, exitCode, printed, tty>>
              ELSE /\ IF RestoresOnInjectFailure
                      THEN /\ tty' = IF restored THEN SettingsToRestore(inj) ELSE tty
                           /\ InjectReturn(InjectFailureError(char, restored),
                                           <<Op("inject", FALSE), Op("restore", restored)>>)
                      ELSE /\ restored
                           /\ tty' = tty
                           /\ InjectReturn(InjectFailureError(char, restored),
                                           <<Op("inject", FALSE)>>)
                   /\ UNCHANGED <<ttyQueue, inj>>
  /\ UNCHANGED <<env, genCalls, genArgs, netCalls, genErr, result, today, costFile, costLog, upd,
                 sel, selOutcome, rerunCount>>

\* Lines 149-154: after the last character, write the snapshot back.
InjectRestore ==
  /\ pc = "inj_loop"
  /\ inj.idx > Len(inj.cmd)
  /\ \E ok \in BOOLEAN :
       IF RestoresAfterLoop
       THEN /\ tty' = IF ok THEN SettingsToRestore(inj) ELSE tty
            /\ InjectReturn(IF ok THEN NoInjErr
                            ELSE InjErr("failed to restore terminal settings", 0),
                            <<Op("restore", ok)>>)
       ELSE /\ ok
            /\ tty' = tty
            /\ InjectReturn(NoInjErr, <<>>)
  /\ UNCHANGED <<env, genCalls, genArgs, netCalls, genErr, result, today, costFile, costLog, upd,
                 sel, selOutcome, rerunCount, ttyQueue, inj>>

Next ==
  \/ Tick
  \/ CostDelete
  \/ RunGenerate
  \/ RunCostRead
  \/ RunCostWrite
  \/ SelectStart
  \/ UIMsg
  \/ UIStop
  \/ UIFail
  \/ InjectGet
  \/ InjectDisableEcho
  \/ InjectChar
  \/ InjectRestore

Spec == Init /\ [][Next]_vars

\* ------------------------------------------------ one selector, logged

\* SelectCmd has started the UI program: the first GenerateCmds call of a
\* run on linux with OPENAI_API_KEY set, no model override and no ledger file
\* has returned a command set, and its cost is recorded.
SelectorInit ==
  \E cs \in CmdSets, u \in Usages :
    LET e == Environment("linux", "", "sk-openai", "")
        r == GenerateCmds(e, [kind |-> "ok", content |-> MarshalCmds(cs), usage |-> u])
        absent == CostFile("absent", {}, NoCosts)
    IN  /\ env = e
        /\ pc = "ui"
        /\ exitCode = -1
        /\ printed = <<>>
        /\ genCalls = 1
        /\ genArgs = <<[question |-> GenerateArg, key |-> r.key, net |-> r.net,
                         resp |-> NoResponse]>>
        /\ netCalls = r.net
        /\ genErr = r.err
        /\ result = r.result
        /\ today = 1
        /\ costFile = UpdateCost(absent, 1, r.result.Cost, "ok").file
        /\ costLog = [initial |-> absent,
                      calls |-> <<[cost |-> r.result.Cost, day |-> 1, io |-> "ok",
                                   afterError |-> FALSE, before |-> NoFile,
                                   after |-> NoFile]>>,
                      deletes |-> 0]
        /\ upd = NoUpdate
        /\ sel = [Idle EXCEPT !.m = NewCmdSelector(CommentedCmds(r.result.Message))]
        /\ selOutcome = NoOutcome
        /\ rerunCount = 0
        /\ tty = Termios(TRUE, TRUE)
        /\ ttyQueue = <<>>
        /\ inj = NoInject
        /\ injLog = EmptyInjLog

SelectorNext ==
  \/ UIKey
  \/ UIStop
  \/ UIFail

\* One SelectCmd call, from the start of its UI program to its return and
\* to what rootCmd.Run does with the result.
SelectorSpec == SelectorInit /\ [][SelectorNext]_vars

\* -------------------------------------------- one request, logged

\* The start of a run but for the environment, the terminal and the ledger.
StartOfRun ==
  /\ pc = "loop"
  /\ exitCode = -1
  /\ printed = <<>>
  /\ genCalls = 0
  /\ genArgs = <<>>
  /\ netCalls = 0
  /\ genErr = NoError
  /\ result = ZeroResult
  /\ today = 1
  /\ costLog = [initial |-> costFile, calls |-> <<>>, deletes |-> 0]
  /\ upd = NoUpdate
  /\ sel = Idle
  /\ selOutcome = NoOutcome
  /\ rerunCount = 0
  /\ ttyQueue = <<>>
  /\ inj = NoInject
  /\ injLog = EmptyInjLog

\* Command and comment texts of the entries a body carries: "ls", the empty
\* text, U+20AC "a"; "m", the empty text.
EntryTexts ==
  {[Cmd |-> c, Comment |-> m] : c \in {<<108, 115>>, EmptyStr, <<8364, 97>>},
                                m \in {<<109>>, EmptyStr}}

\* Items of the "cmds" array that fit the schema.
FitItems == {JObject([cmd |-> JStr(e.Cmd), comment |-> JStr(e.Comment)]) : e \in EntryTexts}

\* Items that do not: a member missing, a member of another type, a null
\* member, a member name in another case, one member more, an item that is
\* no object.
DefectItems ==
  {JObject([comment |-> JStr(<<109>>)]),
   JObject([cmd |-> JStr(<<108, 115>>)]),
   JObject([cmd |-> JNumber, comment |-> JStr(<<109>>)]),
   JObject([cmd |-> JStr(<<108, 115>>), comment |-> JNumber]),
   JObject([cmd |-> JNull, comment |-> JStr(<<109>>)]),
   JObject([Cmd |-> JStr(<<108, 115>>), comment |-> JStr(<<109>>)]),
   JObject([cmd |-> JStr(<<108, 115>>), comment |-> JStr(<<109>>), note |-> JNumber]),
   JNull,
   JStr(<<108, 115>>)}

ItemLists == UNION {[1..n -> FitItems \cup DefectItems] : n \in 0..MaxCmds}

\* Message contents: an object with an array "cmds" of up to MaxCmds items,
\* and contents that are no JSON, no object, or an object without such an
\* array or with one member more.
Bodies ==
  {JObject([cmds |-> JArray(items)]) : items \in ItemLists}
  \cup {TruncatedContent, JNull, JNumber, JArray(<<>>), JObject(<<>>),
        JObject([cmds |-> JNull]), JObject([cmds |-> JStr(<<108, 115>>)]),
        JObject([note |-> JNumber]),
        JObject([cmds |-> JArray(<<>>), note |-> JNumber])}

\* Token counters of a completion.
TokenCounts == {0, 1, 500, 1000}

\* Completions with one body and every usage.
UsageResponses ==
  {[kind |-> "ok", content |-> MarshalCmds(<<CmdEntry(1)>>), usage |-> Usage(p, c, o)] :
     p \in TokenCounts, c \in TokenCounts, o \in TokenCounts}

\* Completions: every body with one usage, and one body with every usage.
ClientResponses ==
  {[kind |-> "ok", content |-> c, usage |-> u] : c \in Bodies, u \in Usages}
  \cup UsageResponses

\* A key is set; the model is the default or one of the allow-list, and the
\* build fuses or does not.
ClientEnvs ==
  {Built(Environment("linux", "", "sk-openai", m), f) :
     m \in {"", OpenAIModelGPT4oMini, OpenAIModelGPT4o}, f \in Fusions}

ClientInit ==
  /\ env \in ClientEnvs
  /\ tty = Termios(TRUE, TRUE)
  /\ costFile = CostFile("absent", {}, NoCosts)
  /\ StartOfRun

\* The bodies are varied in the build that does not fuse, the usage in all.
ClientGenerate ==
  Generate(IF env.fusion = NoFusion THEN ClientResponses ELSE UsageResponses, TRUE)

ClientCostRead == UpdateCostRead({"ok"}, TRUE)

ClientNext ==
  \/ ClientGenerate
  \/ ClientCostRead
  \/ LoggedCostWrite
  \/ SelectStart

\* One iteration of rootCmd.Run up to the start of the selector, the response
\* of the backend being logged.
ClientSpec == ClientInit /\ [][ClientNext]_vars

\* ------------------------------------------------ one recording, logged

\* Ledger files a run can find: none; entries for day 0 and day 1; an entry
\* for day 0 only; a text that is no JSON; an entry for day 0 beside a member
\* that is no number; null.
LedgerFiles ==
  {CostFile("absent", {}, NoCosts),
   CostFile("valid", {0, 1}, [NoCosts EXCEPT ![0] = Float64(7000), ![1] = Float64(5000)]),
   CostFile("valid", {0}, [NoCosts EXCEPT ![0] = Float64(7000)]),
   CostFile("corrupt", {}, NoCosts),
   CostFile("corrupt", {0}, [NoCosts EXCEPT ![0] = Float64(7000)]),
   CostFile("null", {}, NoCosts)}

\* A failed request, and completions with a command set and a usage.
LedgerResponses ==
  {[kind |-> "error", content |-> TruncatedContent, usage |-> NoUsage]}
  \cup {[kind |-> "ok", content |-> MarshalCmds(cs), usage |-> u] :
          cs \in CmdSets, u \in {NoUsage, Usage(1, 1, 1), Usage(1000, 0, 500)}}

LedgerInit ==
  /\ env = Environment("linux", "", "sk-openai", "")
  /\ tty = Termios(TRUE, TRUE)
  /\ costFile \in LedgerFiles
  /\ StartOfRun

LedgerGenerate == Generate(LedgerResponses, TRUE)

LedgerCostRead == UpdateCostRead(LedgerIOOutcomes, TRUE)

LedgerNext ==
  \/ Tick
  \/ CostDelete
  \/ LedgerGenerate
  \/ LedgerCostRead
  \/ LoggedCostWrite
  \/ SelectStart

\* One iteration of rootCmd.Run up to the start of the selector, on either
\* day, over every ledger file and every answer of the file system.
LedgerSpec == LedgerInit /\ [][LedgerNext]_vars

\* ------------------------------------------------------------ properties

\* The positions of the log of terminal operations that hold the operation o.
OpsAt(o) == {i \in DOMAIN injLog.ops : injLog.ops[i] = o}

\* The positions of the write-backs of the snapshot, failed or not.
Restores == OpsAt(Op("restore", TRUE)) \cup OpsAt(Op("restore", FALSE))

\* C1 as stated: whenever injectToPrompt has returned, the terminal's echo
\* setting is the one it had when injectToPrompt was called, whatever
\* operations failed.
C1_EchoAsBeforeOnEveryReturn ==
  injLog.returned => tty.echo = injLog.before.echo

\* C1, amended: whenever injectToPrompt has returned, the terminal settings
\* are the ones it had when injectToPrompt was called, unless the write-back
\* of the snapshot itself failed.
C1_EchoAsBeforeUnlessWriteBackFails ==
  injLog.returned => (tty = injLog.before \/ OpsAt(Op("restore", FALSE)) # {})

\* A call on a terminal with echo on, in which a character could not be
\* injected and the write-back succeeded.
C1_Witness ==
  /\ injLog.returned
  /\ injLog.before.echo
  /\ OpsAt(Op("inject", FALSE)) # {}
  /\ OpsAt(Op("restore", TRUE)) # {}
  /\ tty = injLog.before

\* C2: once the echo-disabled settings were applied, the snapshot is written
\* back exactly once before injectToPrompt returns, as its last terminal
\* operation: right after the first character that fails, or after all
\* characters were injected; and not before that.
C2_WriteBackExactlyOnce ==
  OpsAt(Op("disable echo", TRUE)) # {} =>
    IF injLog.returned
    THEN /\ Restores = {Len(injLog.ops)}
         /\ IF OpsAt(Op("inject", FALSE)) # {}
            THEN OpsAt(Op("inject", FALSE)) = {Len(injLog.ops) - 1}
            ELSE Cardinality(OpsAt(Op("inject", TRUE))) = Len(injLog.arg)
    ELSE Restores = {}

\* A call that injected one character, failed on the second and returned.
C2_Witness ==
  /\ injLog.returned
  /\ Cardinality(OpsAt(Op("inject", TRUE))) = 1
  /\ OpsAt(Op("inject", FALSE)) # {}
  /\ Cardinality(Restores) = 1

\* The command of the entry the cursor was on when the first quit, rerun or
\* select key was handled.
FirstCmd == result.Message[sel.firstCursor + 1].Cmd

\* C3 as stated: for a non-empty command set, SelectCmd returns what the first
\* quit, rerun or select key decides: QuitError for a quit key, RerunError for
\* the rerun key, and for a select key the bare command of the entry under the
\* cursor at that moment.  A SelectCmd call whose UI program returns an error
\* returns that error and is not meant.
C3_FirstTerminalKeyDecides ==
  [][(pc = "ui" /\ pc' # "ui" /\ result.Message # <<>> /\ sel.first # "none"
      /\ selOutcome'.kind # "Error") =>
       /\ sel.first = "quit" => selOutcome'.kind = "Quit"
       /\ sel.first = "rerun" => selOutcome'.kind = "Rerun"
       /\ sel.first = "select" =>
            selOutcome'.kind = "Selected" /\ selOutcome'.cmd = FirstCmd]_vars

\* C4 as stated: with an empty command set the cursor keeps its valid value
\* and no key makes the selector index out of range.
C4_EmptySetNeverFails ==
  /\ (pc = "ui" /\ sel.m.cmds = <<>>) => sel.m.cursor = 0
  /\ selOutcome.kind # "Panic"

InjectPcs == {"inj_get", "inj_set", "inj_loop"}

\* C5: a command SelectCmd returned is passed to injectToPrompt, once and as
\* it is; no completion is requested after it, and the process exits with 0
\* if injectToPrompt returns nil and with a non-zero status if it returns an
\* error.  injectToPrompt is called for nothing else.
C5_SelectedIsInjectedOnce ==
  /\ injLog.calls <= 1
  /\ injLog.calls = 1 <=> selOutcome.kind = "Selected"
  /\ selOutcome.kind = "Selected" =>
       /\ injLog.arg = selOutcome.cmd
       /\ pc \in InjectPcs \cup {"exited"}
       /\ genCalls = rerunCount + 1
       /\ pc = "exited" =>
            /\ injLog.returned
            /\ IF injLog.err = NoInjErr THEN exitCode = 0 ELSE exitCode > 0

\* The run ended after "ls" was selected and a character of it could not be
\* injected.
C5_Witness ==
  /\ pc = "exited"
  /\ selOutcome.kind = "Selected"
  /\ injLog.arg = <<108, 115>>
  /\ injLog.err.kind = "InjectError"
  /\ exitCode = 1

\* C6: GenerateCmds is called once at the start and once more after each
\* RerunError, always with the question of the command line: after k reruns
\* it was called k+1 times, and never after a failed call, a quit or a
\* selection.
C6_OneRequestPerRerun ==
  /\ genCalls = Len(genArgs)
  /\ \A i \in DOMAIN genArgs : genArgs[i].question = Question
  /\ genCalls = IF pc = "loop" THEN rerunCount ELSE rerunCount + 1

\* The selector is shown for the second time, after one rerun.
C6_Witness ==
  /\ pc = "ui"
  /\ rerunCount = 1
  /\ genCalls = 2

\* C7: after SelectCmd returned QuitError the process has exited with status
\* 0 without a message, and injectToPrompt was not called: no terminal
\* operation was made and nothing was injected.
C7_QuitExitsZeroWithoutInjection ==
  selOutcome.kind = "Quit" =>
    /\ pc = "exited"
    /\ exitCode = 0
    /\ printed = <<>>
    /\ injLog = EmptyInjLog
    /\ ttyQueue = <<>>

\* The user quit the selector shown after a rerun.
C7_Witness ==
  /\ selOutcome.kind = "Quit"
  /\ rerunCount = 1
  /\ exitCode = 0

\* The message the specification gives each category of GenerateCmds error.
ExpectedMessage(err) ==
  IF err.type = "APIKeyMissingError" THEN "api key hint"
  ELSE IF err.type = "UnsupportedModelError" THEN "supported models"
  ELSE "Error generating commands."

\* C8 as stated: when GenerateCmds fails, the one message printed is the one
\* of the error's category, and the process exits non-zero without a
\* selector or injector call after the failure.
C8_MessageByErrorCategory ==
  (pc = "exited" /\ genErr # NoError) =>
    /\ printed = <<ExpectedMessage(genErr)>>
    /\ exitCode > 0
    /\ selOutcome.kind \in {"none", "Rerun"}
    /\ injLog = EmptyInjLog

RECURSIVE SumCosts(_, _, _)
\* The amount start after the estimates of the successful completions in the
\* calls on day d are added to it, one after the other.
SumCosts(start, calls, d) ==
  IF calls = <<>> THEN start
  ELSE SumCosts(IF ~Head(calls).afterError /\ Head(calls).day = d
                THEN FAdd(start, Head(calls).cost) ELSE start,
                Tail(calls), d)

\* The amount a ledger file holds for day d; a file that is absent or cannot
\* be parsed holds nothing.
AmountIn(file, d) == IF file.kind = "valid" THEN file.amt[d] ELSE FZero

\* The UpdateCost calls made for a completion that succeeded.
Recorded == {i \in DOMAIN costLog.calls : ~costLog.calls[i].afterError}

\* The number of GenerateCmds calls that returned a result so far.
Completions ==
  rerunCount
  + (IF pc \in {"select", "ui"} \cup InjectPcs
        \/ (pc = "exited" /\ selOutcome.kind \notin {"none", "Rerun"})
     THEN 1 ELSE 0)

\* C9 as stated: in a run during which no entry is deleted by another
\* process, on each day the ledger has grown by exactly the sum of the
\* estimates of that day's successful completions.
C9_EveryEstimateInLedger ==
  costLog.deletes = 0 =>
    \A d \in Days :
      AmountIn(costFile, d) = SumCosts(AmountIn(costLog.initial, d), costLog.calls, d)

\* C10 as stated: UpdateCost is not called after a failed GenerateCmds, and a
\* run whose first call fails leaves the ledger file as it was (no entry
\* being deleted by another process meanwhile).
C10_NothingRecordedAfterFailure ==
  /\ \A i \in DOMAIN costLog.calls : ~costLog.calls[i].afterError
  /\ (pc = "exited" /\ genErr # NoError /\ genCalls = 1 /\ costLog.deletes = 0) =>
       costFile = costLog.initial

\* The values of CFOR_OPENAI_MODEL that pass the allow-list: the two listed
\* identifiers, and the empty value, which selects the default.
AcceptedOverrides == {"", "gpt-4o-mini", "gpt-4o"}

\* C11: with a model identifier outside the allow-list, GenerateCmds returns
\* UnsupportedModelError carrying that identifier, whatever the credentials
\* are: no client is built, no request is sent and no result is returned.
C11_UnsupportedModelBeforeAnyRequest ==
  (env.model \notin AcceptedOverrides /\ genCalls > 0) =>
    /\ genErr = Err("UnsupportedModelError", FALSE, env.model)
    /\ result = ZeroResult
    /\ netCalls = 0
    /\ genCalls = 1
    /\ \A i \in DOMAIN genArgs : genArgs[i].net = 0 /\ genArgs[i].key = ""

\* An identifier that differs from a listed one by its case only is rejected,
\* here with no credential set.
C11_Witness ==
  /\ env.model = "GPT-4o"
  /\ env.cforKey = "" /\ env.openaiKey = ""
  /\ genCalls = 1
  /\ genErr.type = "UnsupportedModelError" /\ genErr.model = "GPT-4o"

\* Neither credential variable holds a key.
NoCredentials == env.cforKey = "" /\ env.openaiKey = ""

\* C12 as stated: without credentials GenerateCmds returns
\* APIKeyMissingError and sends no request, for every model override.
C12_MissingCredentialsForEveryModel ==
  (NoCredentials /\ genCalls > 0) =>
    genErr.type = "APIKeyMissingError" /\ netCalls = 0

\* C12, amended: without credentials GenerateCmds sends no request; it
\* returns APIKeyMissingError when the model override is empty or in the
\* allow-list, and UnsupportedModelError for the override otherwise.
C12_MissingCredentialsForAcceptedModel ==
  (NoCredentials /\ genCalls > 0) =>
    /\ netCalls = 0
    /\ \A i \in DOMAIN genArgs : genArgs[i].net = 0
    /\ result = ZeroResult
    /\ genErr = IF env.model \in AcceptedOverrides
                THEN Err("APIKeyMissingError", TRUE, "")
                ELSE Err("UnsupportedModelError", FALSE, env.model)

\* Without credentials and with a listed model, the run ended on the error.
C12_Witness ==
  /\ NoCredentials
  /\ env.model = OpenAIModelGPT4oMini
  /\ pc = "exited"
  /\ genCalls = 1
  /\ genErr.type = "APIKeyMissingError"
  /\ netCalls = 0

\* The bytes a terminal receives when the character r is typed: its UTF-8
\* encoding.
Utf8(r) ==
  IF r < 128 THEN <<r>>
  ELSE IF r < 2048 THEN <<192 + (r \div 64), 128 + (r % 64)>>
  ELSE IF r < 65536
  THEN <<224 + (r \div 4096), 128 + ((r \div 64) % 64), 128 + (r % 64)>>
  ELSE <<240 + (r \div 262144), 128 + ((r \div 4096) % 64),
         128 + ((r \div 64) % 64), 128 + (r % 64)>>

RECURSIVE Typed(_)
\* The input a terminal receives when the string s is typed.
Typed(s) == IF s = <<>> THEN <<>> ELSE Utf8(Head(s)) \o Typed(Tail(s))

\* The number of characters injectToPrompt has injected.
Injected == Cardinality(OpsAt(Op("inject", TRUE)))

\* C13 as stated: when the injection of the character at position i fails,
\* injectToPrompt returns InjectError with that character, the characters
\* before it are in the terminal's input queue, in order, and nothing after
\* them: no injection is attempted after the first failure.
C13_FirstFailureStopsInjection ==
  (injLog.returned /\ OpsAt(Op("inject", FALSE)) # {}) =>
    /\ Injected < Len(injLog.arg)
    /\ Cardinality(OpsAt(Op("inject", FALSE))) = 1
    /\ injLog.err = InjErr("InjectError", injLog.arg[Injected + 1])
    /\ ttyQueue = Typed(SubSeq(injLog.arg, 1, Injected))

\* C14 as stated: when injectToPrompt returns nil, the terminal's input
\* queue holds the command as typed: every character of it, whole and in order.
C14_QueueHoldsTheCommand ==
  (injLog.returned /\ injLog.err = NoInjErr) => ttyQueue = Typed(injLog.arg)

\* C15 as stated: on an operating system other than linux and darwin,
\* injectToPrompt makes no terminal operation and returns
\* PlatformUnsupportedError.
C15_UnsupportedPlatformFailsClosed ==
  (env.goos \notin {"linux", "darwin"} /\ injLog.calls > 0) =>
    /\ injLog.ops = <<>>
    /\ injLog.returned => injLog.err.kind = "PlatformUnsupportedError"

\* C16: when every character was injected and the write-back fails,
\* injectToPrompt returns the restore error, which is no InjectError; when
\* the injection of a character fails and the write-back fails too, it
\* returns the InjectError of that character.
C16_RestoreFailureDoesNotMask ==
  injLog.returned =>
    /\ (OpsAt(Op("inject", FALSE)) = {} /\ OpsAt(Op("restore", FALSE)) # {}) =>
         /\ Injected = Len(injLog.arg)
         /\ injLog.err = InjErr("failed to restore terminal settings", 0)
    /\ (OpsAt(Op("inject", FALSE)) # {} /\ OpsAt(Op("restore", FALSE)) # {}) =>
         injLog.err = InjErr("InjectError", injLog.arg[Injected + 1])

\* "l" was injected, "s" was not, and the write-back failed as well.
C16_Witness ==
  /\ injLog.returned
  /\ injLog.arg = <<108, 115>>
  /\ Injected = 1
  /\ OpsAt(Op("inject", FALSE)) # {}
  /\ OpsAt(Op("restore", FALSE)) # {}
  /\ injLog.err = InjErr("InjectError", 115)
  /\ ~tty.echo

\* The number of rows of the running selector.
Rows == Len(sel.m.cmds)

\* Every message of the log is one of keys.
LogOf(keys) == \A i \in DOMAIN sel.log : sel.log[i] \in keys

\* The last message delivered in a step that delivered one.
Delivered == Len(sel'.log) = Len(sel.log) + 1
LastKey == sel'.log[Len(sel'.log)]

\* C17: with at least one row, after n "down" or "j" keys from the start the
\* cursor is n mod len, and after n "up" or "k" keys it is (-n) mod len.
C17_CursorIsPressesModuloRows ==
  (pc = "ui" /\ Rows >= 1) =>
    /\ LogOf({"down", "j"}) => sel.m.cursor = Len(sel.log) % Rows
    /\ LogOf({"up", "k"}) => sel.m.cursor = (Rows - (Len(sel.log) % Rows)) % Rows

\* Three keys down on two rows: the cursor has wrapped once and is on row 1.
C17_Witness ==
  /\ pc = "ui"
  /\ Rows = 2
  /\ sel.log = <<"down", "j", "down">>
  /\ sel.m.cursor = 1

\* C18: with at least one row the cursor is an index of a row after every
\* message; a key down on the last row puts it on the first row, and a key
\* up on the first row on the last.
C18_CursorStaysInRange ==
  [][(pc' = "ui" /\ Len(sel'.m.cmds) >= 1) =>
       /\ sel'.m.cursor \in 0..(Len(sel'.m.cmds) - 1)
       /\ (pc = "ui" /\ Delivered) =>
            /\ (LastKey \in {"down", "j"} /\ sel.m.cursor = Rows - 1) => sel'.m.cursor = 0
            /\ (LastKey \in {"up", "k"} /\ sel.m.cursor = 0) => sel'.m.cursor = Rows - 1]_vars

\* On two rows: up from the first row, down from the last, then a quit key.
C18_Witness ==
  /\ pc = "ui"
  /\ Rows = 2
  /\ sel.log = <<"k", "down", "q">>
  /\ sel.m.cursor = 0

\* C19 as stated: a message delivered after the first quit, rerun or select
\* key was handled changes neither the outcome SelectCmd reports nor the
\* entry it returns.
C19_LateMessagesChangeNothing ==
  [][(pc = "ui" /\ pc' = "ui" /\ sel.quitting) =>
       SelectCmdReturn(result.Message, sel'.m, NoError)
         = SelectCmdReturn(result.Message, sel.m, NoError)]_vars

\* C20: a key without a binding and a message that is no key leave the
\* cursor, the quit and rerun flags and the selection as they are, return no
\* tea.Quit and do not end the UI program.
C20_UnboundInputChangesNothing ==
  [][(pc = "ui" /\ Delivered /\ LastKey \in {"x", "WindowSizeMsg"}) =>
       /\ pc' = "ui"
       /\ sel'.m = sel.m
       /\ sel'.quitting = sel.quitting
       /\ sel'.first = sel.first]_vars

\* After a key down, a key without a binding and a message that is no key
\* were delivered: the cursor is where the key down put it.
C20_Witness ==
  /\ pc = "ui"
  /\ Rows = 2
  /\ sel.log = <<"down", "x", "WindowSizeMsg">>
  /\ sel.m.cursor = 1
  /\ ~sel.quitting
  /\ sel.m.selected = EmptyStr /\ ~sel.m.quit /\ ~sel.m.rerun

\* The key the environment designates: the dedicated one if it is not empty,
\* the general one otherwise.
DesignatedKey == IF env.cforKey # "" THEN env.cforKey ELSE env.openaiKey

\* C21: every request carries CFOR_OPENAI_API_KEY if that is not empty, and
\* OPENAI_API_KEY otherwise; with a model that passes the allow-list, a call
\* sends a request with that key if there is one and returns
\* APIKeyMissingError without a request if there is none.
C21_DedicatedKeyFirst ==
  /\ \A i \in DOMAIN genArgs :
       genArgs[i].net = 1 => genArgs[i].key = DesignatedKey /\ genArgs[i].key # ""
  /\ (genCalls > 0 /\ env.model \in AcceptedOverrides) =>
       IF DesignatedKey = ""
       THEN genErr = Err("APIKeyMissingError", TRUE, "") /\ netCalls = 0
       ELSE genErr.type # "APIKeyMissingError"
            /\ \A i \in DOMAIN genArgs : genArgs[i].net = 1

\* Both variables are set and the request went out with the dedicated key.
C21_Witness ==
  /\ env.cforKey = "sk-cfor"
  /\ env.openaiKey = "sk-openai"
  /\ genCalls = 1
  /\ genArgs[1].net = 1
  /\ genArgs[1].key = "sk-cfor"

\* The logged response of the one request of a logged run.
Body == genArgs[1].resp.content
Answered == genCalls = 1 /\ genArgs[1].net = 1 /\ genArgs[1].resp.kind = "ok"

\* C22: whenever the message content of a completion does not fit the cmds
\* schema (it is no JSON, a member has another type, a required member is
\* missing, there is a member the schema does not name), GenerateCmds
\* returns a JSONParseError and the zero result; and no successful call
\* returns an entry whose command is empty.
C22_SchemaViolationIsParseError ==
  Answered =>
    /\ ~SchemaValid(Body) => genErr.type = "JSONParseError" /\ result = ZeroResult
    /\ genErr = NoError => \A i \in DOMAIN result.Message : result.Message[i].Cmd # EmptyStr

\* C23: a command set serialized as {"cmds":[{"cmd":..,"comment":..},..]} and
\* sent as the message content comes back from GenerateCmds without an error
\* and equal to the original: the same entries in the same order.
RoundTripSets == UNION {[1..n -> EntryTexts] : n \in 0..MaxCmds}
C23_RoundTrip ==
  \A cs \in RoundTripSets :
    (Answered /\ Body = MarshalCmds(cs)) => genErr = NoError /\ result.Message = cs

C23_Witness ==
  /\ Answered
  /\ Body = MarshalCmds(<<[Cmd |-> <<8364, 97>>, Comment |-> EmptyStr],
                           [Cmd |-> <<108, 115>>, Comment |-> <<109>>]>>)
  /\ genErr = NoError
  /\ Len(result.Message) = 2
  /\ result.Message[1] = [Cmd |-> <<8364, 97>>, Comment |-> EmptyStr]
  /\ result.Message[2] = [Cmd |-> <<108, 115>>, Comment |-> <<109>>]

\* C24: for each supported model and all token counters the estimate is
\* prompt * input rate + cached * cached-input rate + completion * output rate
\* with the rates of that model's row of the table, exactly: it is the
\* float64 of that amount (485000 and 7500000 units of 1e-9 dollar for 1000
\* prompt, no cached and 500 completion tokens); it is zero when the three
\* counters are zero.  An amount is not negative by its representation.
UsedModel == IF env.model = "" THEN DefaultModel ELSE env.model
RowOf(model) ==
  IF model = "gpt-4o-mini" THEN <<2500, 1250, 10000>> ELSE <<150, 75, 670>>
C24_EstimateIsTableArithmetic ==
  (Answered /\ genErr = NoError) =>
    LET u == genArgs[1].resp.usage
        row == RowOf(UsedModel)
    IN  /\ UsedModel \in {"gpt-4o-mini", "gpt-4o"}
        /\ result.Cost = Float64(u.PromptTokens * row[1] + u.CachedTokens * row[2]
                                 + u.CompletionTokens * row[3])
        /\ (u = NoUsage => result.Cost = FZero)
        /\ (u = Usage(1000, 0, 500) /\ UsedModel = "gpt-4o" => result.Cost = Float64(485000))
        /\ (u = Usage(1000, 0, 500) /\ UsedModel = "gpt-4o-mini"
              => result.Cost = Float64(7500000))

\* C29: every GenerateCmds call returns to rootCmd.Run, with a result and no
\* error or with the zero result and one error of the types
\* APIKeyMissingError, UnsupportedModelError, OpenAIRequestError,
\* JSONParseError; a completion without any choice is no exception: the
\* process does not end in a panic of the request.  rootCmd.Run calls
\* UpdateCost after every GenerateCmds call that returned, so a process that
\* has ended with fewer UpdateCost calls than requests ended inside a request.
RequestPanicked == pc = "exited" /\ Len(costLog.calls) < genCalls
C29_ResultOrOneError ==
  genCalls > 0 =>
    /\ ~RequestPanicked
    /\ \/ genErr = NoError
       \/ /\ genErr.type \in {"APIKeyMissingError", "UnsupportedModelError",
                              "OpenAIRequestError", "JSONParseError"}
          /\ result = ZeroResult

\* C25: within one injectToPrompt call the terminal operations come in the
\* order get, disable echo, inject ..., restore: a character is injected
\* only after the settings without echo were applied and before the
\* write-back, the terminal does not echo while characters are injected, and
\* the settings written back are the ones that were read.
C25_OperationOrder ==
  /\ \A i \in DOMAIN injLog.ops :
       LET o == injLog.ops[i].op
       IN  /\ o = "get" => i = 1
           /\ o = "disable echo" => i = 2 /\ injLog.ops[1] = Op("get", TRUE)
           /\ o = "inject" =>
                /\ i > 2
                /\ injLog.ops[2] = Op("disable echo", TRUE)
                /\ \A j \in Restores : j > i
           /\ o = "restore" => i > 2 /\ \A j \in DOMAIN injLog.ops : j > i => j \in Restores
  /\ pc = "inj_loop" => ~tty.echo /\ inj.original = injLog.before
  /\ ttyQueue # <<>> => injLog.ops[2] = Op("disable echo", TRUE)
  /\ OpsAt(Op("restore", TRUE)) # {} => tty = injLog.before

C25_Witness ==
  /\ injLog.returned
  /\ injLog.before = Termios(TRUE, TRUE)
  /\ injLog.ops = <<Op("get", TRUE), Op("disable echo", TRUE), Op("inject", TRUE),
                    Op("inject", TRUE), Op("restore", TRUE)>>
  /\ Len(ttyQueue) = 2
  /\ tty = Termios(TRUE, TRUE)

\* C26: when reading the terminal settings fails, or applying the settings
\* without echo fails, injectToPrompt returns an error, no character is
\* injected, the terminal settings are as they were, and the process exits
\* with a status other than 0.
SetupFailed ==
  OpsAt(Op("get", FALSE)) \cup OpsAt(Op("disable echo", FALSE)) # {}
C26_SetupFailureIsAnError ==
  (injLog.calls > 0 /\ SetupFailed) =>
    /\ injLog.returned
    /\ injLog.err =
         IF OpsAt(Op("get", FALSE)) # {}
         THEN InjErr("failed to get terminal settings", 0)
         ELSE InjErr("failed to disable terminal echo", 0)
    /\ Injected = 0
    /\ OpsAt(Op("inject", FALSE)) = {}
    /\ ttyQueue = <<>>
    /\ tty = injLog.before
    /\ pc = "exited"
    /\ exitCode = 1

C26_Witness ==
  /\ injLog.returned
  /\ injLog.arg # EmptyStr
  /\ injLog.ops = <<Op("get", TRUE), Op("disable echo", FALSE)>>
  /\ injLog.err = InjErr("failed to disable terminal echo", 0)
  /\ ttyQueue = <<>>
  /\ tty = Termios(TRUE, TRUE)
  /\ exitCode = 1

\* The UpdateCost calls for a completion that returned an error.
WriteFailures == {i \in Recorded : costLog.calls[i].io = "fail"}

\* The exit status that the outcomes of the request, of the selector and of
\* the injection give, the ledger left aside.
ExitFor ==
  IF selOutcome.kind = "Quit" THEN 0
  ELSE IF selOutcome.kind = "Selected" THEN (IF injLog.err = NoInjErr THEN 0 ELSE 1)
  ELSE IF selOutcome.kind = "Error" THEN 1
  ELSE IF selOutcome.kind = "Panic" THEN 2
  ELSE IF genErr # NoError THEN 1
  ELSE 2

\* C27: an UpdateCost call that returns an error changes nothing in what
\* rootCmd.Run does next: every completion, recorded or not, is followed by
\* the selector, the selector is started on the rows of the returned command
\* set, and the exit status is the one that the outcomes of the request, the
\* selector and the injection give, as it is without a failure.
C27_LedgerFailureChangesNothing ==
  /\ Cardinality(Recorded) = Completions
  /\ \A i \in WriteFailures : i <= Completions
  /\ pc = "ui" => sel.m.cmds = CommentedCmds(result.Message)
  /\ pc = "exited" => exitCode = ExitFor

C27_Witness ==
  /\ pc = "exited"
  /\ exitCode = 0
  /\ selOutcome.kind = "Selected"
  /\ injLog.returned
  /\ WriteFailures = {1}
  /\ costLog.calls[1].cost # FZero
  /\ costFile = costLog.initial

\* The amount the text of a ledger file holds for day d.
Held(file, d) == IF d \in file.days THEN file.amt[d] ELSE FZero

\* The one UpdateCost call of a logged run returned nil.
RecordedOnce ==
  /\ Len(costLog.calls) = 1
  /\ LET done == UpdateCost(costLog.calls[1].before, costLog.calls[1].day, costLog.calls[1].cost,
                            costLog.calls[1].io)
     IN  ~done.failed /\ ~done.panic

\* C28: whatever the ledger file held, an UpdateCost call that returns nil
\* leaves the day of the call with the amount it had (0 without an entry)
\* plus the cost, every other day with the amount it had, and every day
\* that had an entry with an entry.
C28_RecordAccumulates ==
  RecordedOnce =>
    \A d \in Days :
      /\ Held(costLog.calls[1].after, d) =
           FAdd(Held(costLog.calls[1].before, d),
                IF d = costLog.calls[1].day THEN costLog.calls[1].cost ELSE FZero)
      /\ d \in costLog.calls[1].before.days => d \in costLog.calls[1].after.days

====
